---- MODULE Spec2Model ----
(***************************************************************************)
(* Model of the Prompt Builder of the "Periodic Table of Prompt            *)
(* Engineering" application: the Selection Set kept by App.tsx and the     *)
(* generation turn life cycle of components/PromptBuilder.tsx.             *)
(*                                                                         *)
(* React state is modelled by one variable per useState cell.  A user      *)
(* event handler runs to its first await in one step (React flushes the    *)
(* batched updates of a discrete event before the next event is            *)
(* dispatched); every await of handleGenerate is a step of its own.        *)
(***************************************************************************)
EXTENDS FiniteSets, Integers, Sequences, TLC

\* ------------------------------------------------------------------ bounds
\* number of accepted handleGenerate invocations explored
MaxTurns == 2
\* most techniques selected at once
MaxSelected == 2
\* most techniques selected at once when the selection is explored alone
MaxPicked == 3
\* most sticky notes on the Whiteboard
MaxStickies == 1
\* most structured-plan requests
MaxPlans == 1
\* mode sounds counted
MaxPlays == 3
\* tutor requests of one Modal: startTutorMode and the sends after it
MaxTutorCalls == 3

\* ------------------------------------------------------------- types.ts
UNIVERSAL == "Universal"
COMMAND == "Command"
VIDEO == "Video"
AUDIO == "Audio"
VOICE == "Voice"

\* ---------------------------------------------------------------- data.ts
\* The catalog entries the model draws from: one general technique and one
\* command of TOPICS, and the three entries of MEDIA_TOPICS.
TOPICS ==
  << [symbol |-> "Cl", category |-> UNIVERSAL],
     [symbol |-> "Ps", category |-> COMMAND] >>

MEDIA_TOPICS ==
  << [symbol |-> "Vid", category |-> VIDEO],
     [symbol |-> "Aud", category |-> AUDIO],
     [symbol |-> "Vox", category |-> VOICE] >>

allTopics == TOPICS \o MEDIA_TOPICS

Range(s) == {s[i] : i \in 1..Len(s)}

\* what e.dataTransfer.getData("topicId") can return: the symbol set by a
\* card's handleDragStart, or "" for a drag that carries no topicId
DropSymbols == {t.symbol : t \in Range(allTopics)} \cup {""}

\* ------------------------------------------------------------ Array helpers
\* Array.prototype.filter keeps the passing elements in order
Filter(s, Keep(_)) == SelectSeq(s, Keep)

\* Array.prototype.find, as the truthiness test the callers make of it
Found(s, Test(_)) == \E i \in 1..Len(s) : Test(s[i])

\* Array.prototype.find: the first element passing the test
Find(s, Test(_)) ==
  s[CHOOSE i \in 1..Len(s) : Test(s[i]) /\ \A j \in 1..(i - 1) : ~Test(s[j])]

\* ------------------------------------------------------------------ App.tsx
\* the cards of the main grid and of the bulletin board
mainTopics == LET keep(t) == t.category # COMMAND IN Filter(TOPICS, keep)
commandTopics == LET keep(t) == t.category = COMMAND IN Filter(TOPICS, keep)

\* the cards of the main grid and of the media row, and what a drag started
\* on one of them (or a drag without topicId) carries
GridCards == Range(mainTopics) \cup Range(MEDIA_TOPICS)
GridSymbols == {t.symbol : t \in GridCards} \cup {""}

\* faulty variant: the filter keeps the toggled technique, not the others
toggleBuilderTopicInvertedFilter(bt, topic) ==
  LET same(t) == t.symbol = topic.symbol
  IN IF Found(bt, same) THEN Filter(bt, same) ELSE Append(bt, topic)

\* faulty variant: the membership test is lost and the topic always appended
toggleBuilderTopicNoTest(bt, topic) == Append(bt, topic)

toggleBuilderTopic(bt, topic) ==
  LET same(t) == t.symbol = topic.symbol
      other(t) == t.symbol # topic.symbol
  IN IF Found(bt, same) THEN Filter(bt, other) ELSE Append(bt, topic)

\* <PromptBuilder onRemove={toggleBuilderTopic} />
onRemove(bt, t) == toggleBuilderTopic(bt, t)

\* faulty variant: the drop toggles like a click on the card
handleDropToggles(bt, symbol) ==
  LET same(t) == t.symbol = symbol
  IN IF Found(allTopics, same)
     THEN toggleBuilderTopic(bt, Find(allTopics, same))
     ELSE bt

handleDrop(bt, symbol) ==
  LET same(t) == t.symbol = symbol
  IN IF Found(allTopics, same) /\ ~Found(bt, same)
     THEN Append(bt, Find(allTopics, same))
     ELSE bt

\* ------------------------------------------------- PromptBuilder.tsx: mode
\* faulty variant: the Voice test is missing
ingredientsWithVoice(sel) ==
  LET keep(t) == t.category # VIDEO /\ t.category # AUDIO
  IN Filter(sel, keep)

ingredients(sel) ==
  LET keep(t) == t.category # VIDEO /\ t.category # AUDIO /\ t.category # VOICE
  IN Filter(sel, keep)

modifiers(sel) ==
  LET keep(t) == t.category = VIDEO \/ t.category = AUDIO \/ t.category = VOICE
  IN Filter(sel, keep)

\* faulty variant: the mode is taken from the first selected technique
currentModeOfFirst(sel) ==
  IF sel = << >> THEN "TEXT"
  ELSE IF sel[1].category = VIDEO THEN "VIDEO"
  ELSE IF sel[1].category = AUDIO THEN "AUDIO"
  ELSE IF sel[1].category = VOICE THEN "VOICE"
  ELSE "TEXT"

\* faulty variant: the audio test placed before the video test
currentModeAudioFirst(sel) ==
  LET isVideo(t) == t.category = VIDEO
      isAudio(t) == t.category = AUDIO
      isVoice(t) == t.category = VOICE
  IN IF Found(modifiers(sel), isAudio) THEN "AUDIO"
     ELSE IF Found(modifiers(sel), isVideo) THEN "VIDEO"
     ELSE IF Found(modifiers(sel), isVoice) THEN "VOICE"
     ELSE "TEXT"

currentMode(sel) ==
  LET isVideo(t) == t.category = VIDEO
      isAudio(t) == t.category = AUDIO
      isVoice(t) == t.category = VOICE
  IN IF Found(modifiers(sel), isVideo) THEN "VIDEO"
     ELSE IF Found(modifiers(sel), isAudio) THEN "AUDIO"
     ELSE IF Found(modifiers(sel), isVoice) THEN "VOICE"
     ELSE "TEXT"


\* -------------------------------------------------- PromptBuilder.tsx: state
VARIABLES
  hasApiKey,       \* process.env.API_KEY is set (fixed by the build)
  builderTopics,   \* App: the Selection Set, passed down as selectedTopics
  userPrompt,      \* text of the input box, a sequence of characters
  messages,        \* the transcript
  isBuilding,
  isExpanded,
  chatSession,     \* 0 is null, n > 0 the n-th Chat made by ai.chats.create
  loadingMsgIndex,
  turns,           \* the handleGenerate invocations that have not returned
                   \* or whose timer is pending: closure values and position
  calls,           \* calls[i]: the backend calls of the i-th invocation
  whiteboard,      \* the Whiteboard: closed, or mounted with mode text or plan
  stickies,        \* Whiteboard: the sticky notes
  capture,         \* Whiteboard: the handleCapture invocation awaiting
                   \* html2canvas, the stickies its closure captured
  planRequest,     \* the latest structured-plan request and its outcome
  activatePlays,   \* PromptBuilder: the plays of the activate sound by the
                   \* mode effect, counted modulo SfxWrap
  outbound,        \* outbound[i]: the message the i-th invocation passes to
                   \* chat.sendMessage
  isTutorMode,     \* Modal
  tutorMessages,
  tutorInput,
  isTutorLoading,
  tutorChat,       \* Modal's chatSession: FALSE is null, TRUE the Chat
  tutorCalls,      \* Modal: the tutor requests in flight
  isPresentationMode,
  slides,
  currentSlide,
  isPresentationLoading,
  deck             \* Modal: the generatePresentation invocation in flight

\* the Whiteboard and the plan request
boardVars == << whiteboard, stickies, capture, planRequest >>

\* the Modal
modalVars == << isTutorMode, tutorMessages, tutorInput, isTutorLoading, tutorChat,
               tutorCalls, isPresentationMode, slides, currentSlide,
               isPresentationLoading, deck >>

\* what the builder's and the Whiteboard's handlers leave alone
restVars == << modalVars, activatePlays, outbound >>

vars == << hasApiKey, builderTopics, userPrompt, messages, isBuilding,
           isExpanded, chatSession, loadingMsgIndex, turns, calls, boardVars,
           activatePlays, outbound, modalVars >>

Null == "null"
Closed == "closed"
Undefined == "undefined"
NoChat == 0

\* The generatePresentation invocation of the mounted Modal:
\*   pc:      "none" | "timer" (mock timer pending) | "slides" (awaiting the
\*            slide request) | "hero" (awaiting the hero image) | "done"
\*   request: the slide request   "none" | "pending" | "ok" | "rejected"
\*   text:    response.text of the slide request
\*   hero:    the hero image call "none" | "pending" | ImageData | Null |
\*            "rejected"
\*   generatedSlides: the local array of the invocation
Deck(pc, request, text, hero, generatedSlides) ==
  [pc |-> pc, request |-> request, text |-> text, hero |-> hero,
   generatedSlides |-> generatedSlides]
NoDeck == Deck("none", "none", << >>, "none", << >>)

\* texts are sequences: typed text one character per element, the fixed
\* texts of the component one element each.  The texts typed into the box:
\* nothing, white space only, a word with white space around it.
Prompts == { << >>, << " " >>, << " ", "a", " " >> }

\* String.prototype.trim
RECURSIVE trimStart(_)
trimStart(s) ==
  IF s # << >> /\ Head(s) = " " THEN trimStart(Tail(s)) ELSE s

RECURSIVE trimEnd(_)
trimEnd(s) ==
  IF s # << >> /\ s[Len(s)] = " " THEN trimEnd(SubSeq(s, 1, Len(s) - 1)) ELSE s

trim(s) == trimEnd(trimStart(s))

ErrorText == << "Error: Could not generate content. Please try again." >>
ReplyText == << "textResult.text" >>
ImageData == "data:image/png;base64"

simText(mode) ==
  IF mode = "VIDEO" THEN << "// SIMULATION: API KEY MISSING.", "Simulating Video Render" >>
  ELSE IF mode = "AUDIO" THEN << "// SIMULATION: API KEY MISSING.", "Simulating Audio Synthesis" >>
  ELSE << "// SIMULATION: API KEY MISSING.", "Please add your API Key" >>

\* A Message; turn names the handleGenerate invocation that appended it.
Message(role, text, image, id) ==
  [role |-> role, text |-> text, image |-> image, turn |-> id]

\* faulty variant: the input is tested before it is trimmed
rejectedUntrimmed(prompt, isRegen) == prompt = << >> /\ ~isRegen

\* Whiteboard: refining, and the stickies handleCapture's closure holds
Capture(isRefining, notes) == [refining |-> isRefining, stickies |-> notes]
\* Whiteboard.tsx line 49
refining == capture.refining

\* a structured-plan request: "none" | "pending" | "returned" | "rejected",
\* and the text the backend returned
PlanRequest(state, text) == [state |-> state, text |-> text]

\* handleGenerate, lines 219-220: the early return
rejected(prompt, isRegen) == trim(prompt) = << >> /\ ~isRegen

\* faulty variant: the user message is appended on a regenerate too
optimisticAppendAlways(msgs, isRegen, promptText, id) ==
  Append(msgs, Message("user", promptText, Undefined, id))

\* faulty variant: the user message is never appended
optimisticAppendSkipped(msgs, isRegen, promptText, id) == msgs

\* handleGenerate, lines 230-233: optimistic append of the user message
optimisticAppend(msgs, isRegen, promptText, id) ==
  IF ~isRegen THEN Append(msgs, Message("user", promptText, Undefined, id))
  ELSE msgs

\* faulty variant: the session is re-initialized on every generation
needsInitAlways(chat, messagesLength) == TRUE

\* handleGenerate, lines 251-252
needsInit(chat, messagesLength) == chat = NoChat \/ messagesLength = 0

\* faulty variant: the mode test is lost
runImageGenAnyMode(messagesLength, isRegen, mode) ==
  messagesLength = 0 /\ ~isRegen

\* handleGenerate, line 265
runImageGen(messagesLength, isRegen, mode) ==
  messagesLength = 0 /\ ~isRegen /\ mode = "TEXT"

\* faulty variant: a null imageResult is stored as it is
replyMessageKeepsNull(imageResult, id) ==
  Message("model", ReplyText, imageResult, id)

\* handleGenerate, lines 272-276: imageResult || undefined
replyMessage(imageResult, id) ==
  Message("model", ReplyText, IF imageResult # Null THEN imageResult ELSE Undefined, id)

\* faulty variant: the catch block sets the transcript to the failure Message
catchAppendReplaces(msgs, id) == << Message("model", ErrorText, Undefined, id) >>

\* faulty variant: the catch block only logs
catchAppendLogsOnly(msgs, id) == msgs

\* handleGenerate, lines 278-280: the catch block
catchAppend(msgs, id) == Append(msgs, Message("model", ErrorText, Undefined, id))

\* faulty variant: the finally block is missing
finallyKeepsBuilding(b) == b

\* handleGenerate, lines 281-283: the finally block
finallyIsBuilding(b) == FALSE

\* faulty variant: the simulation callback only clears isBuilding
simulationAppendSkipped(msgs, mode, id) == msgs

\* handleGenerate, lines 238-246: the simulation callback
simulationAppend(msgs, mode, id) ==
  Append(msgs, Message("model", simText(mode), Undefined, id))

\* One handleGenerate invocation: the values its closure captured when the
\* action fired, and where it is suspended:
\*   "init"  awaiting initializeChat      "calls" awaiting Promise.all
\*   "sim"   returned, its simulation timer pending
Turn(isRegen, promptText, messagesLength, mode, chat, pc) ==
  [isRegen |-> isRegen, promptText |-> promptText,
   messagesLength |-> messagesLength, mode |-> mode, chat |-> chat, pc |-> pc]

\* The backend calls of one invocation:
\*   text:  chat.sendMessage    "none" | "pending" | "ok" | "rejected"
\*   image: generateInfographic "none" | "pending" | ImageData | Null
Calls(text, image) == [text |-> text, image |-> image]

\* the function f without its value at i
Without(f, i) == [j \in DOMAIN f \ {i} |-> f[j]]

\* the Modal as mounted: the useState initial values, nothing in flight
ModalInit ==
  /\ isTutorMode = FALSE
  /\ tutorMessages = << >>
  /\ tutorInput = << >>
  /\ isTutorLoading = FALSE
  /\ tutorChat = FALSE
  /\ tutorCalls = << >>
  /\ isPresentationMode = FALSE
  /\ slides = << >>
  /\ currentSlide = 0
  /\ isPresentationLoading = FALSE
  /\ deck = NoDeck

Init ==
  /\ hasApiKey \in BOOLEAN
  /\ builderTopics = << >>
  /\ userPrompt = << >>
  /\ messages = << >>
  /\ isBuilding = FALSE
  /\ isExpanded = FALSE
  /\ chatSession = NoChat
  /\ loadingMsgIndex = 0
  /\ turns = << >>
  /\ calls = << >>
  /\ whiteboard = Closed
  /\ stickies = << >>
  /\ capture = Capture(FALSE, << >>)
  /\ planRequest = PlanRequest("none", << >>)
  /\ activatePlays = 0
  /\ outbound = << >>
  /\ ModalInit

builderVars == << userPrompt, messages, isBuilding, isExpanded, chatSession,
                  loadingMsgIndex, turns, calls >>

\* ------------------------------------------------------- selection actions
\* ElementCard's select control: onSelect={toggleBuilderTopic}
ToggleBuilderTopic(topic) ==
  /\ builderTopics' = toggleBuilderTopic(builderTopics, topic)
  /\ Len(builderTopics') <= MaxSelected
  /\ UNCHANGED << restVars, hasApiKey, builderVars, boardVars >>

\* the remove control of a chip of the reaction chamber: onRemove(t) for a
\* t of ingredients or modifiers
OnRemove(t) ==
  /\ t \in Range(ingredients(builderTopics)) \cup Range(modifiers(builderTopics))
  /\ builderTopics' = onRemove(builderTopics, t)
  /\ UNCHANGED << restVars, hasApiKey, builderVars, boardVars >>

HandleDrop(symbol) ==
  /\ builderTopics' = handleDrop(builderTopics, symbol)
  /\ Len(builderTopics') <= MaxSelected
  /\ UNCHANGED << restVars, hasApiKey, builderVars, boardVars >>

\* ---------------------------------------------------------- builder actions
\* input onChange
SetUserPrompt(v) ==
  /\ userPrompt' = v
  /\ UNCHANGED << restVars, hasApiKey, builderTopics, messages, isBuilding, isExpanded,
                  chatSession, loadingMsgIndex, turns, calls, boardVars >>

ToggleExpand ==
  /\ isExpanded' = ~isExpanded
  /\ UNCHANGED << restVars, hasApiKey, builderTopics, userPrompt, messages, isBuilding,
                  chatSession, loadingMsgIndex, turns, calls, boardVars >>

\* the controls that call handleGenerate: Enter key (!isBuilding), the
\* regenerate button (rendered when messages.length > 0 && !isBuilding), the
\* generate button (disabled={isBuilding})
offered(isRegen) == ~isBuilding /\ (isRegen => Len(messages) > 0)

\* handleGenerate up to its first await (or its return)
HandleGenerate(isRegen) ==
  LET promptText == trim(userPrompt)
      id == Len(calls) + 1
      mode == currentMode(builderTopics)
      n == Len(messages)
      t(pc) == Turn(isRegen, promptText, n, mode, chatSession, pc)
  IN
  /\ offered(isRegen)
  /\ ~rejected(userPrompt, isRegen)
  /\ Len(calls) < MaxTurns
  /\ isExpanded' = TRUE
  /\ loadingMsgIndex' = 0
  /\ userPrompt' = IF ~isRegen THEN << >> ELSE userPrompt
  /\ messages' = optimisticAppend(messages, isRegen, promptText, id)
  /\ UNCHANGED << modalVars, activatePlays, hasApiKey, builderTopics, chatSession,
                  boardVars >>
  /\ IF ~hasApiKey
     THEN \* setTimeout(..., 3000); return; finally
          /\ turns' = turns @@ (id :> t("sim"))
          /\ calls' = Append(calls, Calls("none", "none"))
          /\ isBuilding' = finallyIsBuilding(TRUE)
     ELSE IF needsInit(chatSession, n)
     THEN /\ turns' = turns @@ (id :> t("init"))
          /\ calls' = Append(calls, Calls("none", "none"))
          /\ isBuilding' = TRUE
     ELSE /\ turns' = turns @@ (id :> t("calls"))
          /\ calls' = Append(calls,
                 Calls("pending",
                       IF runImageGen(n, isRegen, mode) THEN "pending" ELSE "none"))
          /\ isBuilding' = TRUE

\* handleGenerate with empty trimmed input and no regenerate: the early
\* return of lines 219-220
HandleGenerateRejected ==
  /\ offered(FALSE)
  /\ rejected(userPrompt, FALSE)
  /\ UNCHANGED vars

\* the turn's try block ends in the catch block, then finally, and returns
Fails(i, text) ==
  /\ messages' = catchAppend(messages, i)
  /\ isBuilding' = finallyIsBuilding(isBuilding)
  /\ turns' = Without(turns, i)
  /\ calls' = [calls EXCEPT ![i].text = text]

\* the turn's try block completes, then finally, and returns
Completes(i, imageResult) ==
  /\ messages' = Append(messages, replyMessage(imageResult, i))
  /\ isBuilding' = finallyIsBuilding(isBuilding)
  /\ turns' = Without(turns, i)

\* await initializeChat() settles: ai.chats.create returned a Chat or threw
InitializeChatSettles(i, ok) ==
  /\ i \in DOMAIN turns
  /\ turns[i].pc = "init"
  /\ UNCHANGED << restVars, hasApiKey, builderTopics, userPrompt, isExpanded, loadingMsgIndex,
                  boardVars >>
  /\ IF ok
     THEN LET chat == chatSession + 1
              cur == turns[i]
          IN /\ chatSession' = chat
             /\ turns' = [turns EXCEPT ![i].chat = chat, ![i].pc = "calls"]
             /\ calls' = [calls EXCEPT ![i] =
                            Calls("pending",
                                  IF runImageGen(cur.messagesLength, cur.isRegen, cur.mode)
                                  THEN "pending" ELSE "none")]
             /\ UNCHANGED << messages, isBuilding >>
     ELSE /\ Fails(i, "none")
          /\ UNCHANGED chatSession

\* chat.sendMessage settles; Promise.all rejects at once when it rejects and
\* resolves once the image promise has resolved too
SendMessageSettles(i, ok) ==
  /\ i \in DOMAIN turns
  /\ turns[i].pc = "calls" /\ calls[i].text = "pending"
  /\ UNCHANGED << restVars, hasApiKey, builderTopics, userPrompt, isExpanded, loadingMsgIndex,
                  chatSession, boardVars >>
  /\ IF ~ok THEN Fails(i, "rejected")
     ELSE IF calls[i].image = "pending"
     THEN /\ calls' = [calls EXCEPT ![i].text = "ok"]
          /\ UNCHANGED << messages, isBuilding, turns >>
     ELSE /\ Completes(i, IF calls[i].image = "none" THEN Null ELSE calls[i].image)
          /\ calls' = [calls EXCEPT ![i].text = "ok"]

\* generateInfographic settles: an inline image, or null (the call failed and
\* was caught, or the response carried no inlineData part)
GenerateInfographicSettles(i, imageResult) ==
  /\ i \in 1..Len(calls)
  /\ calls[i].image = "pending"
  /\ calls' = [calls EXCEPT ![i].image = imageResult]
  /\ UNCHANGED << restVars, hasApiKey, builderTopics, userPrompt, isExpanded, loadingMsgIndex,
                  chatSession, boardVars >>
  /\ IF i \in DOMAIN turns /\ calls[i].text = "ok"
     THEN Completes(i, imageResult)
     ELSE UNCHANGED << messages, isBuilding, turns >>

\* the simulation timer fires; equal delays fire in the order they were set
SimulationTimeout(i) ==
  /\ i \in DOMAIN turns
  /\ turns[i].pc = "sim"
  /\ \A j \in DOMAIN turns : j < i => turns[j].pc # "sim"
  /\ messages' = simulationAppend(messages, turns[i].mode, i)
  /\ isBuilding' = FALSE
  /\ turns' = Without(turns, i)
  /\ UNCHANGED << restVars, hasApiKey, builderTopics, userPrompt, isExpanded, loadingMsgIndex,
                  chatSession, calls, boardVars >>

Next ==
  \/ \E topic \in GridCards : ToggleBuilderTopic(topic)
  \/ \E t \in Range(allTopics) : OnRemove(t)
  \/ \E symbol \in GridSymbols : HandleDrop(symbol)
  \/ \E v \in Prompts : SetUserPrompt(v)
  \/ ToggleExpand
  \/ \E isRegen \in BOOLEAN : HandleGenerate(isRegen) /\ UNCHANGED outbound
  \/ HandleGenerateRejected
  \/ \E i \in 1..MaxTurns, ok \in BOOLEAN : InitializeChatSettles(i, ok)
  \/ \E i \in 1..MaxTurns, ok \in BOOLEAN : SendMessageSettles(i, ok)
  \/ \E i \in 1..MaxTurns, img \in {ImageData, Null} : GenerateInfographicSettles(i, img)
  \/ \E i \in 1..MaxTurns : SimulationTimeout(i)

Spec == Init /\ [][Next]_vars

\* -------------------------------------------- the selection on its own
\* every card of the page, the builder left alone, the sounds of the mode
\* effect counted in activatePlays

\* faulty variant: the effect plays in every mode
modeEffectAnyMode(plays, mode) == plays + 1

\* the body of the mode effect: playSFX('activate') unless the mode is TEXT
modeEffect(plays, mode) == IF mode # "TEXT" THEN plays + 1 ELSE plays

\* the render after a selection change: the effect has the dependency list
\* [currentMode] and runs when the mode of this render differs from the
\* mode of the last one
RenderMode ==
  /\ activatePlays' =
       IF currentMode(builderTopics') # currentMode(builderTopics)
       THEN modeEffect(activatePlays, currentMode(builderTopics'))
       ELSE activatePlays
  /\ activatePlays' <= MaxPlays

PickCard(topic) ==
  /\ builderTopics' = toggleBuilderTopic(builderTopics, topic)
  /\ Len(builderTopics') <= MaxPicked
  /\ RenderMode
  /\ UNCHANGED << modalVars, outbound, hasApiKey, builderVars, boardVars >>

\* the remove control of a chip, as OnRemove
RemoveChip(t) ==
  /\ t \in Range(ingredients(builderTopics)) \cup Range(modifiers(builderTopics))
  /\ builderTopics' = onRemove(builderTopics, t)
  /\ RenderMode
  /\ UNCHANGED << modalVars, outbound, hasApiKey, builderVars, boardVars >>

DropCard(symbol) ==
  /\ builderTopics' = handleDrop(builderTopics, symbol)
  /\ Len(builderTopics') <= MaxPicked
  /\ RenderMode
  /\ UNCHANGED << modalVars, outbound, hasApiKey, builderVars, boardVars >>

SelectionNext ==
  \/ \E topic \in Range(allTopics) : PickCard(topic)
  \/ \E t \in Range(allTopics) : RemoveChip(t)
  \/ \E symbol \in DropSymbols : DropCard(symbol)

SpecSelection == Init /\ [][SelectionNext]_vars

\* ---------------------------------------------- the builder on its own
\* the selection is left alone: the builder with a TEXT mode selection
TextSelections == { << >>, << TOPICS[1] >> }

InitText ==
  /\ hasApiKey \in BOOLEAN
  /\ builderTopics \in TextSelections
  /\ userPrompt = << >>
  /\ messages = << >>
  /\ isBuilding = FALSE
  /\ isExpanded = FALSE
  /\ chatSession = NoChat
  /\ loadingMsgIndex = 0
  /\ turns = << >>
  /\ calls = << >>
  /\ whiteboard = Closed
  /\ stickies = << >>
  /\ capture = Capture(FALSE, << >>)
  /\ planRequest = PlanRequest("none", << >>)
  /\ activatePlays = 0
  /\ outbound = << >>
  /\ ModalInit

BuilderNext ==
  \/ \E v \in Prompts : SetUserPrompt(v)
  \/ \E isRegen \in BOOLEAN : HandleGenerate(isRegen) /\ UNCHANGED outbound
  \/ HandleGenerateRejected
  \/ \E i \in 1..MaxTurns, ok \in BOOLEAN : InitializeChatSettles(i, ok)
  \/ \E i \in 1..MaxTurns, ok \in BOOLEAN : SendMessageSettles(i, ok)
  \/ \E i \in 1..MaxTurns, img \in {ImageData, Null} : GenerateInfographicSettles(i, img)
  \/ \E i \in 1..MaxTurns : SimulationTimeout(i)

\* every issued backend call settles and every timer that was set fires
Settling ==
  /\ WF_vars(\E i \in 1..MaxTurns, ok \in BOOLEAN : InitializeChatSettles(i, ok))
  /\ WF_vars(\E i \in 1..MaxTurns, ok \in BOOLEAN : SendMessageSettles(i, ok))
  /\ WF_vars(\E i \in 1..MaxTurns, img \in {ImageData, Null} : GenerateInfographicSettles(i, img))
  /\ WF_vars(\E i \in 1..MaxTurns : SimulationTimeout(i))

SpecLive == InitText /\ [][BuilderNext]_vars /\ Settling

\* ------------------------------------------------------------ Whiteboard
\* a click position in half pixels (3 is 1.5 px), and Math.round of it
ClickAt == 3
round(x2) == (x2 + 1) \div 2

\* the texts typed into a sticky note
NoteTexts == { << >>, << "f", "i", "x" >> }

StickyNote(id, x, y, text) == [id |-> id, x |-> x, y |-> y, text |-> text]

\* faulty variant: the note's text is left out of its line
captureNotesWithoutText(st) ==
  [i \in 1..Len(st) |-> << "Note at", round(st[i].x), round(st[i].y), << >> >>]

\* handleCapture, line 158: one line per sticky note, joined by "\n"
captureNotes(st) ==
  [i \in 1..Len(st) |-> << "Note at", round(st[i].x), round(st[i].y), st[i].text >>]

\* canvas.toDataURL('image/png')
CapturedImage == "data:image/png;capture"

\* handleMouseDown with the sticky tool; the n-th note stands for the n-th
\* value of Date.now()
AddSticky ==
  /\ whiteboard # Closed
  /\ Len(stickies) < MaxStickies
  /\ stickies' = Append(stickies,
                    StickyNote(Len(stickies) + 1, ClickAt, ClickAt, << >>))
  /\ UNCHANGED << restVars, hasApiKey, builderTopics, builderVars, whiteboard, capture,
                  planRequest >>

UpdateSticky(id, text) ==
  /\ whiteboard # Closed
  /\ \E i \in 1..Len(stickies) : stickies[i].id = id
  /\ stickies' = [i \in 1..Len(stickies) |->
                    IF stickies[i].id = id
                    THEN [stickies[i] EXCEPT !.text = text]
                    ELSE stickies[i]]
  /\ UNCHANGED << restVars, hasApiKey, builderTopics, builderVars, whiteboard, capture,
                  planRequest >>

\* handleCapture up to await html2canvas; the button is disabled={refining}
HandleCapture ==
  /\ whiteboard # Closed
  /\ ~refining
  /\ Len(calls) < MaxTurns
  /\ capture' = Capture(TRUE, stickies)
  /\ UNCHANGED << restVars, hasApiKey, builderTopics, builderVars, whiteboard, stickies,
                  planRequest >>

\* the fixed text of the user Message of a refine turn
RefinePlaceholder == << "applying visual refinements" >>

Payload(image, notes) == [image |-> image, notes |-> notes]

\* a handleGenerate invocation started by onRefine: a Turn with its payload
RefineTurn(messagesLength, mode, chat, pc, payload) ==
  [isRegen |-> FALSE, promptText |-> RefinePlaceholder,
   messagesLength |-> messagesLength, mode |-> mode, chat |-> chat, pc |-> pc,
   payload |-> payload]

\* onRefine(image, notes): from idle, a turn as handleGenerate starts it,
\* the user Message carrying the placeholder, image and notes the payload;
\* not idle, nothing
OnRefine(image, notes) ==
  LET id == Len(calls) + 1
      mode == currentMode(builderTopics)
      n == Len(messages)
      t(pc) == RefineTurn(n, mode, chatSession, pc, Payload(image, notes))
  IN
  IF isBuilding
  THEN UNCHANGED << messages, isBuilding, isExpanded, loadingMsgIndex, turns, calls >>
  ELSE
  /\ isExpanded' = TRUE
  /\ loadingMsgIndex' = 0
  /\ messages' = optimisticAppend(messages, FALSE, RefinePlaceholder, id)
  /\ IF ~hasApiKey
     THEN /\ turns' = turns @@ (id :> t("sim"))
          /\ calls' = Append(calls, Calls("none", "none"))
          /\ isBuilding' = finallyIsBuilding(TRUE)
     ELSE IF needsInit(chatSession, n)
     THEN /\ turns' = turns @@ (id :> t("init"))
          /\ calls' = Append(calls, Calls("none", "none"))
          /\ isBuilding' = TRUE
     ELSE /\ turns' = turns @@ (id :> t("calls"))
          /\ calls' = Append(calls,
                 Calls("pending",
                       IF runImageGen(n, FALSE, mode) THEN "pending" ELSE "none"))
          /\ isBuilding' = TRUE

\* await html2canvas settles: onRefine(image, notes); onClose(), or the catch
\* block; then finally
CaptureSettles(ok) ==
  /\ refining
  /\ capture' = Capture(FALSE, << >>)
  /\ UNCHANGED << modalVars, activatePlays, hasApiKey, builderTopics, userPrompt,
                  chatSession, planRequest >>
  /\ IF ok
     THEN /\ OnRefine(CapturedImage, captureNotes(capture.stickies))
          /\ whiteboard' = Closed
          /\ stickies' = << >>
     ELSE UNCHANGED << messages, isBuilding, isExpanded, loadingMsgIndex, turns,
                       calls, whiteboard, stickies >>

\* the Whiteboard is mounted on the latest reply, mode text
OpenWhiteboard ==
  /\ whiteboard = Closed
  /\ ~isBuilding
  /\ \E q \in 1..Len(messages) : messages[q].role = "model"
  /\ whiteboard' = "text"
  /\ stickies' = << >>
  /\ UNCHANGED << restVars, hasApiKey, builderTopics, builderVars, capture, planRequest >>

\* onClose: the Whiteboard is unmounted
CloseWhiteboard ==
  /\ whiteboard # Closed
  /\ whiteboard' = Closed
  /\ stickies' = << >>
  /\ UNCHANGED << restVars, hasApiKey, builderTopics, builderVars, capture, planRequest >>

\* ------------------------------------------------------ the plan request
\* the texts a structured-output request returns: a JSON object of the
\* schema, and texts JSON.parse rejects
ValidPlanText == << "{", "title", "steps", "}" >>
InvalidPlanTexts == { << "{", "title" >>, << "Here is the plan" >> }
PlanTexts == {ValidPlanText} \cup InvalidPlanTexts

\* JSON.parse accepts the text: an object, opened and closed
isJSON(text) == Len(text) >= 2 /\ text[1] = "{" /\ text[Len(text)] = "}"

PlanData(title, steps) == [title |-> title, steps |-> steps]
ErrorPlan == PlanData("Error", << >>)

\* faulty variant: a parse failure leaves no plan
parsePlanNoStub(text) ==
  IF isJSON(text) THEN PlanData(text[2], << text[3] >>) ELSE PlanData(Null, Null)

\* the returned text parsed as a Plan, the error stub on a parse failure
parsePlan(text) ==
  IF isJSON(text) THEN PlanData(text[2], << text[3] >>) ELSE ErrorPlan

PlanNote == << "plan" >>
\* a Message carrying a Plan; it belongs to no handleGenerate invocation
PlanMessage(plan) ==
  [role |-> "model", text |-> PlanNote, image |-> Undefined, turn |-> 0,
   plan |-> plan]

\* the requests made so far: each left one Message of turn 0
plansMade == Cardinality({q \in 1..Len(messages) : messages[q].turn = 0})

GeneratePlan ==
  /\ whiteboard = Closed
  /\ planRequest.state # "pending"
  /\ plansMade < MaxPlans
  /\ planRequest' = PlanRequest("pending", << >>)
  /\ UNCHANGED << restVars, hasApiKey, builderTopics, builderVars, whiteboard, stickies,
                  capture >>

\* the structured-output request returns a text: the parsed Plan (or the
\* stub) is appended and the visualization opens
PlanReturns(text) ==
  /\ planRequest.state = "pending"
  /\ planRequest' = PlanRequest("returned", text)
  /\ messages' = Append(messages, PlanMessage(parsePlan(text)))
  /\ whiteboard' = "plan"
  /\ stickies' = << >>
  /\ UNCHANGED << restVars, hasApiKey, builderTopics, userPrompt, isBuilding, isExpanded,
                  chatSession, loadingMsgIndex, turns, calls, capture >>

\* the structured-output request fails: the generic error Message
PlanRejected ==
  /\ planRequest.state = "pending"
  /\ planRequest' = PlanRequest("rejected", << >>)
  /\ messages' = Append(messages, Message("model", ErrorText, Undefined, 0))
  /\ UNCHANGED << restVars, hasApiKey, builderTopics, userPrompt, isBuilding, isExpanded,
                  chatSession, loadingMsgIndex, turns, calls, whiteboard,
                  stickies, capture >>

\* the task typed into the input box
TaskPrompt == << " ", "a", " " >>

InitBoard == InitText /\ builderTopics = << >>

\* the builder with the plan request; the visualization (fixed inset-0)
\* covers the builder's controls while it is mounted
PlanNext ==
  \/ whiteboard = Closed /\ SetUserPrompt(TaskPrompt)
  \/ whiteboard = Closed /\ HandleGenerate(FALSE) /\ UNCHANGED outbound
  \/ \E i \in 1..MaxTurns, ok \in BOOLEAN : InitializeChatSettles(i, ok)
  \/ \E i \in 1..MaxTurns, ok \in BOOLEAN : SendMessageSettles(i, ok)
  \/ \E i \in 1..MaxTurns, img \in {ImageData, Null} : GenerateInfographicSettles(i, img)
  \/ \E i \in 1..MaxTurns : SimulationTimeout(i)
  \/ CloseWhiteboard
  \/ GeneratePlan
  \/ \E text \in PlanTexts : PlanReturns(text)
  \/ PlanRejected

SpecPlan == InitBoard /\ [][PlanNext]_vars

\* the builder with the Whiteboard mounted on a reply
RefineNext ==
  \/ whiteboard = Closed /\ SetUserPrompt(TaskPrompt)
  \/ whiteboard = Closed /\ HandleGenerate(FALSE) /\ UNCHANGED outbound
  \/ \E i \in 1..MaxTurns, ok \in BOOLEAN : InitializeChatSettles(i, ok)
  \/ \E i \in 1..MaxTurns, ok \in BOOLEAN : SendMessageSettles(i, ok)
  \/ \E i \in 1..MaxTurns, img \in {ImageData, Null} : GenerateInfographicSettles(i, img)
  \/ \E i \in 1..MaxTurns : SimulationTimeout(i)
  \/ OpenWhiteboard
  \/ CloseWhiteboard
  \/ AddSticky
  \/ \E id \in 1..MaxStickies, text \in NoteTexts : UpdateSticky(id, text)
  \/ HandleCapture
  \/ \E ok \in BOOLEAN : CaptureSettles(ok) /\ UNCHANGED outbound

SpecRefine == InitBoard /\ [][RefineNext]_vars

\* ------------------------------------------- the message of a turn
\* data.ts: the element (name) of the catalog entries of the model
element(t) ==
  CASE t.symbol = "Cl" -> "Clarity"
    [] t.symbol = "Ps" -> "Persona"
    [] t.symbol = "Vid" -> "Video Gen"
    [] t.symbol = "Aud" -> "Audio/SFX"
    [] t.symbol = "Vox" -> "Voice/TTS"

\* modifiers.map(m => m.element).join(', ')
RECURSIVE joinElements(_)
joinElements(mods) ==
  IF mods = << >> THEN << >>
  ELSE IF Len(mods) = 1 THEN << element(mods[1]) >>
  ELSE << element(mods[1]), ", " >> \o joinElements(Tail(mods))

RegenerateText == "Regenerate the previous response with a different approach."
UpdatedContext == "\n\n[UPDATED CONTEXT]\nMode: "
ModifiersLabel == "\nModifiers: "

\* faulty variant: the context is appended on the first turn too
msgToSendContextAlways(isRegen, promptText, messagesLength, mode, mods) ==
  (IF isRegen THEN << RegenerateText >> ELSE promptText)
    \o << UpdatedContext, mode, ModifiersLabel >> \o joinElements(mods)

\* handleGenerate, lines 259-262
msgToSend(isRegen, promptText, messagesLength, mode, mods) ==
  LET base == IF isRegen THEN << RegenerateText >> ELSE promptText
  IN IF messagesLength > 0
     THEN base \o << UpdatedContext, mode, ModifiersLabel >> \o joinElements(mods)
     ELSE base

\* handleGenerate up to its first await, with the argument its closure
\* passes to chat.sendMessage kept in outbound: promptText, messages,
\* currentMode and modifiers are constants of the render the handler was
\* created in.  Without API key the handler returns before line 259.
Fire(isRegen) ==
  /\ HandleGenerate(isRegen)
  /\ outbound' =
       IF hasApiKey
       THEN outbound @@ ((Len(calls) + 1) :>
              msgToSend(isRegen, trim(userPrompt), Len(messages),
                        currentMode(builderTopics), modifiers(builderTopics)))
       ELSE outbound

\* the builder with the cards of the media row
ContextNext ==
  \/ SetUserPrompt(TaskPrompt)
  \/ \E isRegen \in BOOLEAN : Fire(isRegen)
  \/ \E i \in 1..MaxTurns, ok \in BOOLEAN : InitializeChatSettles(i, ok)
  \/ \E i \in 1..MaxTurns, ok \in BOOLEAN : SendMessageSettles(i, ok)
  \/ \E i \in 1..MaxTurns, img \in {ImageData, Null} : GenerateInfographicSettles(i, img)
  \/ \E i \in 1..MaxTurns : SimulationTimeout(i)
  \/ \E topic \in Range(MEDIA_TOPICS) : ToggleBuilderTopic(topic)

SpecContext == InitBoard /\ [][ContextNext]_vars

\* ------------------------------------------------ Modal: presentation
Slide(title, points, imageUrl) ==
  [title |-> title, points |-> points, imageUrl |-> imageUrl]

\* the slides of the no-key timer
MockSlides ==
  << Slide("topic.element", << "Please add API Key for real content." >>, Undefined),
     Slide("Concept", << "topic.description" >>, Undefined),
     Slide("Usage", << "topic.usage" >>, Undefined) >>

FailedSlide == Slide("Error", << "Failed to generate slides." >>, Undefined)
CouldNotSlide == Slide("Error", << "Could not generate presentation." >>, Undefined)

\* response.text of the slide request: a JSON array of four slides, of two,
\* of one, the empty array, no text, the JSON null, a text cut short
FourSlidesText == << "[", "Title", "Concept", "Mechanics", "Takeaway", "]" >>
TwoSlidesText == << "[", "Title", "Concept", "]" >>
OneSlideText == << "[", "Title", "]" >>
SlideTexts ==
  { FourSlidesText, TwoSlidesText, OneSlideText, << "[", "]" >>, << >>,
    << "null" >>, << "[", "Title" >> }

\* response.text || "[]"
textOrEmptyArray(text) == IF text = << >> THEN << "[", "]" >> ELSE text

\* JSON.parse accepts the text as an array
isJSONArray(text) == Len(text) >= 2 /\ text[1] = "[" /\ text[Len(text)] = "]"

\* JSON.parse gives null: generatedSlides.length throws a TypeError, which
\* the outer catch takes
parsesToNull(text) == textOrEmptyArray(text) = << "null" >>

\* faulty variant: a parse failure leaves the deck empty
generatedSlidesNoStub(text) ==
  LET t == textOrEmptyArray(text)
  IN IF isJSONArray(t)
     THEN [k \in 1..(Len(t) - 2) |-> Slide(t[k + 1], << "point" >>, Undefined)]
     ELSE << >>

\* generatePresentation, lines 295-301: the parsed array, the error slide
\* when JSON.parse throws
generatedSlides(text) ==
  LET t == textOrEmptyArray(text)
  IN IF isJSONArray(t)
     THEN [k \in 1..(Len(t) - 2) |-> Slide(t[k + 1], << "point" >>, Undefined)]
     ELSE << FailedSlide >>

\* faulty variant: the slide position is kept
resetSlideKept(cur) == cur

\* generatePresentation, line 262: setCurrentSlide(0)
resetSlide(cur) == 0

Min(a, b) == IF a < b THEN a ELSE b
Max(a, b) == IF a > b THEN a ELSE b

\* the slide view is rendered (line 458, inside the presentation branch)
slideViewShown == isPresentationMode /\ ~isPresentationLoading /\ Len(slides) > 0

tutorVars == << isTutorMode, tutorMessages, tutorInput, isTutorLoading, tutorChat,
               tutorCalls >>
pageVars == << hasApiKey, builderTopics, builderVars, boardVars, activatePlays,
              outbound >>

\* the Generate Deck buttons, rendered outside presentation and tutor mode
GeneratePresentation ==
  /\ ~isPresentationMode /\ ~isTutorMode
  /\ isPresentationMode' = TRUE
  /\ isPresentationLoading' = TRUE
  /\ currentSlide' = resetSlide(currentSlide)
  /\ deck' = IF ~hasApiKey THEN Deck("timer", "none", << >>, "none", << >>)
             ELSE Deck("slides", "pending", << >>, "none", << >>)
  /\ UNCHANGED << pageVars, tutorVars, slides >>

\* the 2000 ms timer of the no-key branch
MockTimeout ==
  /\ deck.pc = "timer"
  /\ slides' = MockSlides
  /\ isPresentationLoading' = FALSE
  /\ deck' = [deck EXCEPT !.pc = "done"]
  /\ UNCHANGED << pageVars, tutorVars, isPresentationMode, currentSlide >>

\* the slide request settles: rejected (outer catch), or a text that is
\* parsed; a non-empty array goes on to the hero image
SlideRequestSettles(ok, text) ==
  /\ deck.pc = "slides"
  /\ UNCHANGED << pageVars, tutorVars, isPresentationMode, currentSlide >>
  /\ IF ~ok
     THEN /\ slides' = << CouldNotSlide >>
          /\ isPresentationLoading' = FALSE
          /\ deck' = [deck EXCEPT !.pc = "done", !.request = "rejected"]
     ELSE IF parsesToNull(text)
     THEN /\ slides' = << CouldNotSlide >>
          /\ isPresentationLoading' = FALSE
          /\ deck' = [deck EXCEPT !.pc = "done", !.request = "ok", !.text = text]
     ELSE LET g == generatedSlides(text)
          IN IF Len(g) > 0
             THEN /\ deck' = Deck("hero", "ok", text, "pending", g)
                  /\ UNCHANGED << slides, isPresentationLoading >>
             ELSE /\ slides' = g
                  /\ isPresentationLoading' = FALSE
                  /\ deck' = Deck("done", "ok", text, "none", g)

\* the hero image call settles: an image, a response without inlineData
\* (Null), or a rejection, which is only logged
HeroImageSettles(img) ==
  /\ deck.pc = "hero"
  /\ LET g == IF img = ImageData
              THEN [deck.generatedSlides EXCEPT ![1].imageUrl = ImageData]
              ELSE deck.generatedSlides
     IN /\ slides' = g
        /\ deck' = [deck EXCEPT !.pc = "done", !.hero = img, !.generatedSlides = g]
  /\ isPresentationLoading' = FALSE
  /\ UNCHANGED << pageVars, tutorVars, isPresentationMode, currentSlide >>

\* the next button (disabled on the last slide)
NextSlide ==
  /\ slideViewShown
  /\ currentSlide # Len(slides) - 1
  /\ currentSlide' = Min(currentSlide + 1, Len(slides) - 1)
  /\ UNCHANGED << pageVars, tutorVars, isPresentationMode, slides,
                  isPresentationLoading, deck >>

\* the previous button (disabled on the first slide)
PrevSlide ==
  /\ slideViewShown
  /\ currentSlide # 0
  /\ currentSlide' = Max(currentSlide - 1, 0)
  /\ UNCHANGED << pageVars, tutorVars, isPresentationMode, slides,
                  isPresentationLoading, deck >>

\* Exit Deck, rendered in the slide view
ExitDeck ==
  /\ slideViewShown
  /\ isPresentationMode' = FALSE
  /\ UNCHANGED << pageVars, tutorVars, slides, currentSlide,
                  isPresentationLoading, deck >>

DeckNext ==
  \/ GeneratePresentation
  \/ MockTimeout
  \/ \E ok \in BOOLEAN, text \in SlideTexts : SlideRequestSettles(ok, text)
  \/ \E img \in {ImageData, Null, "rejected"} : HeroImageSettles(img)
  \/ NextSlide
  \/ PrevSlide
  \/ ExitDeck

\* the slide request and the hero image call settle, the mock timer fires
DeckSettling ==
  /\ WF_vars(MockTimeout)
  /\ WF_vars(\E ok \in BOOLEAN, text \in SlideTexts : SlideRequestSettles(ok, text))
  /\ WF_vars(\E img \in {ImageData, Null, "rejected"} : HeroImageSettles(img))

SpecDeck == InitBoard /\ [][DeckNext]_vars /\ DeckSettling

\* ------------------------------------------------------ Modal: tutor
\* A tutor request, one per invocation of startTutorMode or handleTutorSend
\* that got past its early return:
\*   op:    "start" | "send"
\*   text:  chat.sendMessage    "none" | "pending" | "ok" | "empty" | "rejected"
\*   image: the infographic     "none" | "pending" | ImageData | Null | "rejected"
\*   done:  the invocation has run its finally block (or returned)
TutorCall(op, text, image, done) ==
  [op |-> op, text |-> text, image |-> image, done |-> done]

TutorMessage(role, text, image) == [role |-> role, text |-> text, image |-> image]

TutorSimulationText == << "Simulation: API Key missing." >>
TutorInitErrorText == << "Error initializing Tutor Mode. Please check console." >>
TutorNoTextError == << "Error generating text." >>
TutorSendErrorText == << "Error sending message." >>
TutorReviewText == << "textRes.text" >>
TutorReplyText == << "res.text" >>
TutorRegenerateText == << "Regenerate the entire review with a different focus." >>

\* faulty variant: a rejected image promise is taken as a missing image
promiseAllImageOptional(text, image) ==
  IF text = "rejected" THEN "rejected"
  ELSE IF "pending" \in {text, image} THEN "pending"
  ELSE "resolved"

\* Promise.all([imagePromise, textPromise]): rejected as soon as one is,
\* resolved when both are
promiseAll(text, image) ==
  IF "rejected" \in {text, image} THEN "rejected"
  ELSE IF "pending" \in {text, image} THEN "pending"
  ELSE "resolved"

\* startTutorMode, lines 208-220: the first Message of the review
reviewMessage(text, image) ==
  TutorMessage("model",
               IF text = "ok" THEN TutorReviewText ELSE TutorNoTextError,
               IF image = ImageData THEN ImageData ELSE Undefined)

deckVars == << isPresentationMode, slides, currentSlide, isPresentationLoading, deck >>

\* the tutor view is rendered
tutorViewShown == isTutorMode /\ ~isPresentationMode

\* the Deep Dive buttons, rendered outside presentation and tutor mode;
\* created: new GoogleGenAI and ai.chats.create did not throw
StartTutorMode(created) ==
  /\ ~isPresentationMode /\ ~isTutorMode
  /\ Len(tutorCalls) < MaxTutorCalls
  /\ isTutorMode' = TRUE
  /\ UNCHANGED << pageVars, deckVars, tutorInput >>
  /\ IF ~hasApiKey
     THEN /\ tutorMessages' = << TutorMessage("model", TutorSimulationText, Undefined) >>
          /\ isTutorLoading' = FALSE
          /\ tutorCalls' = Append(tutorCalls, TutorCall("start", "none", "none", TRUE))
          /\ UNCHANGED tutorChat
     ELSE IF ~created
     THEN /\ tutorMessages' = << TutorMessage("model", TutorInitErrorText, Undefined) >>
          /\ isTutorLoading' = FALSE
          /\ tutorCalls' = Append(tutorCalls, TutorCall("start", "rejected", "none", TRUE))
          /\ UNCHANGED tutorChat
     ELSE /\ isTutorLoading' = TRUE
          /\ tutorChat' = TRUE
          /\ tutorCalls' = Append(tutorCalls, TutorCall("start", "pending", "pending", FALSE))
          /\ UNCHANGED tutorMessages

\* startTutorMode after one of its two promises settled to the call c
StartContinues(i, c) ==
  LET all == promiseAll(c.text, c.image)
  IN /\ UNCHANGED << pageVars, deckVars, isTutorMode, tutorInput, tutorChat >>
     /\ tutorCalls' = [tutorCalls EXCEPT ![i] = [c EXCEPT !.done = all # "pending"]]
     /\ IF all = "pending"
        THEN UNCHANGED << tutorMessages, isTutorLoading >>
        ELSE /\ isTutorLoading' = FALSE
             /\ tutorMessages' =
                  IF all = "rejected"
                  THEN << TutorMessage("model", TutorInitErrorText, Undefined) >>
                  ELSE << reviewMessage(c.text, c.image) >>

\* the infographic call settles: an image, a response without inlineData
\* (Null), or a rejection
TutorImageSettles(i, img) ==
  /\ i \in 1..Len(tutorCalls)
  /\ tutorCalls[i].op = "start" /\ ~tutorCalls[i].done
  /\ tutorCalls[i].image = "pending"
  /\ StartContinues(i, [tutorCalls[i] EXCEPT !.image = img])

\* the first chat.sendMessage settles: a text, an empty text, a rejection
TutorTextSettles(i, res) ==
  /\ i \in 1..Len(tutorCalls)
  /\ tutorCalls[i].op = "start" /\ ~tutorCalls[i].done
  /\ tutorCalls[i].text = "pending"
  /\ StartContinues(i, [tutorCalls[i] EXCEPT !.text = res])

\* the follow-up input onChange
SetTutorInput(v) ==
  /\ tutorViewShown
  /\ tutorInput' = v
  /\ UNCHANGED << pageVars, deckVars, isTutorMode, tutorMessages, isTutorLoading,
                  tutorChat, tutorCalls >>

\* handleTutorSend up to its await
HandleTutorSend(override) ==
  LET textToSend == IF override THEN TutorRegenerateText ELSE tutorInput
  IN /\ trim(textToSend) # << >> /\ tutorChat
     /\ Len(tutorCalls) < MaxTutorCalls
     /\ IF ~override
        THEN /\ tutorMessages' =
                  Append(tutorMessages, TutorMessage("user", textToSend, Undefined))
             /\ tutorInput' = << >>
        ELSE UNCHANGED << tutorMessages, tutorInput >>
     /\ isTutorLoading' = TRUE
     /\ tutorCalls' = Append(tutorCalls, TutorCall("send", "pending", "none", FALSE))
     /\ UNCHANGED << pageVars, deckVars, isTutorMode, tutorChat >>

\* the Send button, disabled={isTutorLoading}
SendButton == tutorViewShown /\ ~isTutorLoading /\ HandleTutorSend(FALSE)
\* Enter in the follow-up input: e.key === 'Enter' && handleTutorSend()
EnterKey == tutorViewShown /\ HandleTutorSend(FALSE)
\* the Regenerate button of the tutor header
RegenerateButton == tutorViewShown /\ HandleTutorSend(TRUE)

\* chatSession.sendMessage of a send settles
TutorSendSettles(i, ok) ==
  /\ i \in 1..Len(tutorCalls)
  /\ tutorCalls[i].op = "send" /\ ~tutorCalls[i].done
  /\ tutorCalls' = [tutorCalls EXCEPT ![i].text = IF ok THEN "ok" ELSE "rejected",
                                      ![i].done = TRUE]
  /\ tutorMessages' =
       Append(tutorMessages,
              TutorMessage("model", IF ok THEN TutorReplyText ELSE TutorSendErrorText,
                           Undefined))
  /\ isTutorLoading' = FALSE
  /\ UNCHANGED << pageVars, deckVars, isTutorMode, tutorInput, tutorChat >>

TutorNext ==
  \/ \E created \in BOOLEAN : StartTutorMode(created)
  \/ \E i \in 1..MaxTutorCalls, img \in {ImageData, Null, "rejected"} :
       TutorImageSettles(i, img)
  \/ \E i \in 1..MaxTutorCalls, res \in {"ok", "empty", "rejected"} :
       TutorTextSettles(i, res)
  \/ \E v \in Prompts : SetTutorInput(v)
  \/ SendButton
  \/ EnterKey
  \/ RegenerateButton
  \/ \E i \in 1..MaxTutorCalls, ok \in BOOLEAN : TutorSendSettles(i, ok)

SpecTutor == InitBoard /\ [][TutorNext]_vars

\* ------------------------------------------------ the loading indicator
LOADING_MESSAGES ==
  << "// Initializing Neural Link...", "// Synthesizing Vectors...",
     "// Retrieving Context Window...", "// Optimizing Token Stream...",
     "// Applying Heuristic Filters...", "// Generating Response..." >>

VIDEO_LOADING_MESSAGES ==
  << "// Initializing Veo Physics Engine...", "// Calculating Light Ray Tracing...",
     "// Interpolating Frames...", "// Rendering Motion Blur...",
     "// Encoding MP4 Stream..." >>

AUDIO_LOADING_MESSAGES ==
  << "// Oscillating Waveforms...", "// Mixing Spatial Audio...",
     "// Applying Reverb Convolution...", "// Mastering Dynamic Range...",
     "// Encoding Audio Stream..." >>

\* the list the cycling effect and the indicator pick by mode
msgList(mode) ==
  IF mode = "VIDEO" THEN VIDEO_LOADING_MESSAGES
  ELSE IF mode \in {"AUDIO", "VOICE"} THEN AUDIO_LOADING_MESSAGES
  ELSE LOADING_MESSAGES

\* the indicator is rendered inside the expanded panel while isBuilding
loadingShown == isExpanded /\ isBuilding

\* what the indicator renders: list[loadingMsgIndex], JavaScript's
\* undefined when the 0-based index is past the end of the list
loadingText ==
  LET list == msgList(currentMode(builderTopics))
  IN IF loadingMsgIndex + 1 \in DOMAIN list THEN list[loadingMsgIndex + 1]
     ELSE Undefined

\* the 800 ms interval of the cycling effect; the effect is set up again
\* when isBuilding or currentMode changes, so the interval that fires holds
\* the list of the mode of the last render
LoadingTick ==
  /\ isBuilding
  /\ loadingMsgIndex' =
       (loadingMsgIndex + 1) % Len(msgList(currentMode(builderTopics)))
  /\ UNCHANGED << restVars, hasApiKey, builderTopics, userPrompt, messages,
                  isBuilding, isExpanded, chatSession, turns, calls, boardVars >>

\* the builder with its loading indicator and the cards of the media row;
\* the page stays reachable while a turn is in flight
LoadingNext ==
  \/ SetUserPrompt(TaskPrompt)
  \/ HandleGenerate(FALSE) /\ UNCHANGED outbound
  \/ \E i \in 1..MaxTurns, ok \in BOOLEAN : InitializeChatSettles(i, ok)
  \/ \E i \in 1..MaxTurns, ok \in BOOLEAN : SendMessageSettles(i, ok)
  \/ \E i \in 1..MaxTurns, img \in {ImageData, Null} : GenerateInfographicSettles(i, img)
  \/ \E i \in 1..MaxTurns : SimulationTimeout(i)
  \/ \E topic \in Range(MEDIA_TOPICS) : ToggleBuilderTopic(topic)
  \/ LoadingTick

SpecLoading == InitBoard /\ [][LoadingNext]_vars

TypeOK ==
  /\ hasApiKey \in BOOLEAN
  /\ isBuilding \in BOOLEAN
  /\ isExpanded \in BOOLEAN
  /\ userPrompt \in Prompts
  /\ chatSession \in 0..MaxTurns
  /\ Len(calls) <= MaxTurns
  /\ DOMAIN turns \subseteq 1..Len(calls)
  /\ Len(messages) <= 2 * MaxTurns
  /\ loadingMsgIndex \in 0..(Len(LOADING_MESSAGES) - 1)
  /\ activatePlays \in 0..MaxPlays
  /\ DOMAIN outbound \subseteq 1..Len(calls)
  /\ isTutorMode \in BOOLEAN /\ isTutorLoading \in BOOLEAN /\ tutorChat \in BOOLEAN
  /\ tutorInput \in Prompts
  /\ Len(tutorCalls) <= MaxTutorCalls
  /\ isPresentationMode \in BOOLEAN /\ isPresentationLoading \in BOOLEAN
  /\ currentSlide \in 0..3
  /\ deck.pc \in {"none", "timer", "slides", "hero", "done"}

\* ------------------------------------------------------------- properties
Last(s) == s[Len(s)]
\* the positions of the transcript holding a model Message of turn i
ModelPositions(i) ==
  {q \in 1..Len(messages) : messages[q].role = "model" /\ messages[q].turn = i}
\* this step appends a model Message of turn i
AppendsReplyOf(i) ==
  /\ Len(messages') = Len(messages) + 1
  /\ Last(messages').role = "model"
  /\ Last(messages').turn = i

\* C1: the Selection Set never holds two techniques with the same symbol
NoDuplicateSymbols ==
  \A i, j \in 1..Len(builderTopics) :
    i # j => builderTopics[i].symbol # builderTopics[j].symbol

\* C1 witness: two techniques are selected
TwoSelected == Len(builderTopics) = 2

\* C2: the mode is VIDEO if a Video technique is selected, else AUDIO if an
\* Audio one is, else VOICE if a Voice one is, else TEXT
ModePriority ==
  LET cats == {builderTopics[i].category : i \in 1..Len(builderTopics)}
  IN currentMode(builderTopics) =
       CASE VIDEO \in cats -> "VIDEO"
         [] VIDEO \notin cats /\ AUDIO \in cats -> "AUDIO"
         [] VIDEO \notin cats /\ AUDIO \notin cats /\ VOICE \in cats -> "VOICE"
         [] OTHER -> "TEXT"

\* C2 witness: Audio was selected before Video and the mode is VIDEO
AudioThenVideo ==
  /\ Len(builderTopics) = 2
  /\ builderTopics[1].category = AUDIO
  /\ builderTopics[2].category = VIDEO
  /\ currentMode(builderTopics) = "VIDEO"

\* C3 (as claimed): at most one turn is in flight at any time
AtMostOneTurnInFlight == Cardinality(DOMAIN turns) <= 1

\* C4 (as claimed): the reply of a turn is never appended once a later turn
\* was started while it was in flight
SupersededReplyDiscarded ==
  [][\A i \in DOMAIN turns : Len(calls) > i => ~AppendsReplyOf(i)]_vars

\* C5 (as claimed): whenever the builder is idle no reply is pending
IdleMeansNoReplyPending == ~isBuilding => DOMAIN turns = {}

\* the marker of section 4.2's aborted transition
StoppedByUserText == << "generation stopped by user" >>

\* C6 (as claimed): while a turn is in flight the builder has a stop step,
\* one that appends the stopped-by-user Message and leaves the builder idle
StopAppendsMarker ==
  isBuilding =>
    ENABLED (/\ Next
             /\ Len(messages') = Len(messages) + 1
             /\ Last(messages').text = StoppedByUserText
             /\ ~isBuilding')

\* a backend call of turn i fails in this step: initializeChat threw (the
\* invocation returns without having issued sendMessage), or
\* chat.sendMessage rejected
BackendFails(i) ==
  \/ turns[i].pc = "init" /\ i \notin DOMAIN turns'
  \/ calls[i].text = "pending" /\ calls'[i].text = "rejected"

\* C7: a failing backend call appends exactly the one generic failure
\* Message, leaves the builder idle and the turn returned, and a returned
\* turn issues no backend call
BackendFailureHandled ==
  [][\A i \in 1..Len(calls) :
       /\ (i \in DOMAIN turns /\ BackendFails(i)) =>
            /\ messages' = Append(messages, Message("model", ErrorText, Undefined, i))
            /\ ~isBuilding'
            /\ i \notin DOMAIN turns'
            /\ calls'[i].text # "pending"
            /\ calls'[i].image = "pending" => calls[i].image = "pending"
       /\ i \notin DOMAIN turns =>
            /\ i \notin DOMAIN turns'
            /\ calls'[i].text = calls[i].text
            /\ calls'[i].image = "pending" => calls[i].image = "pending"]_vars

\* C7 witness: sendMessage rejected, the failure Message is last, builder idle
FailureShown ==
  /\ ~isBuilding
  /\ messages # << >>
  /\ Last(messages).text = ErrorText
  /\ calls[Last(messages).turn].text = "rejected"

\* the invocation has returned after awaiting its calls
Returned(i) == i \in 1..Len(calls) /\ i \notin DOMAIN turns

\* C8: a first TEXT turn whose content call succeeded and whose image call
\* gave no image has exactly one model Message, the reply without image
ImageFailureTolerated ==
  \A i \in 1..Len(calls) :
    (Returned(i) /\ calls[i].text = "ok" /\ calls[i].image = Null) =>
      /\ Cardinality(ModelPositions(i)) = 1
      /\ \A q \in ModelPositions(i) :
           /\ messages[q].text = ReplyText
           /\ messages[q].image = Undefined

\* C8 witness: such a turn has returned
ReplyWithoutImage ==
  \E i \in 1..Len(calls) :
    Returned(i) /\ calls[i].text = "ok" /\ calls[i].image = Null

\* the turn fired on an empty transcript, is no regenerate, in TEXT mode
FirstTextTurn(i) ==
  turns[i].messagesLength = 0 /\ ~turns[i].isRegen /\ turns[i].mode = "TEXT"

\* C9 (as claimed): a turn waiting for its reply has issued the image call
\* iff it is a first, non-regenerate, TEXT turn
ImageCallIffFirstTextTurn ==
  \A i \in DOMAIN turns :
    turns[i].pc \in {"calls", "sim"} =>
      (calls[i].image # "none" <=> FirstTextTurn(i))

\* C9 (amended): the image call is issued iff the turn issued its content
\* call and is a first, non-regenerate, TEXT turn
ImageCallIffFirstTextTurnWithContentCall ==
  \A i \in DOMAIN turns :
    calls[i].image # "none" <=> (calls[i].text # "none" /\ FirstTextTurn(i))

\* C9 witness: the first turn issued the image call and a later turn is
\* waiting on its content call alone
ImageCallIssuedAndNot ==
  /\ \E i \in 1..Len(calls) : calls[i].image # "none"
  /\ \E i \in DOMAIN turns : calls[i].text = "pending" /\ calls[i].image = "none"

\* the transcript holds the user Message of the live turn i
UserMessagePresent(i) ==
  \E p \in 1..Len(messages) :
    messages[p] = Message("user", turns[i].promptText, Undefined, i)

\* C10: as long as a non-regenerate turn has not delivered its reply, its
\* user Message, with the non-empty trimmed input as text, is in the
\* transcript, and the step that delivers the reply appends it behind
UserMessageBeforeReply ==
  [][\A i \in DOMAIN turns :
       ~turns[i].isRegen =>
         /\ turns[i].promptText # << >>
         /\ UserMessagePresent(i)
         /\ AppendsReplyOf(i) => messages' = Append(messages, Last(messages'))]_vars

\* C10 witness: a non-regenerate turn has its reply in the transcript
ReplyAfterUserMessage ==
  \E p, q \in 1..Len(messages) :
    /\ messages[p].role = "user" /\ messages[q].role = "model"
    /\ messages[p].turn = messages[q].turn


\* a generate (not regenerate) turn in TEXT mode is under way
TextTurn(i) ==
  i \in DOMAIN turns /\ ~turns[i].isRegen /\ turns[i].mode = "TEXT"

\* the transcript holds an assistant Message of turn i with non-empty text
\* and the builder is idle
Replied(i) ==
  /\ ModelPositions(i) # {}
  /\ \A q \in ModelPositions(i) : messages[q].text # << >>
  /\ ~isBuilding

Selected(t) == \E i \in 1..Len(builderTopics) : builderTopics[i].symbol = t.symbol
isMedia(t) == t.category \in {VIDEO, AUDIO, VOICE}
\* the position in the sequence s of its element t
Position(s, t) == CHOOSE i \in 1..Len(s) : s[i] = t

\* C12: toggling a technique that is not selected, twice, gives back the
\* Selection Set, contents and order
ToggleTwiceRestores ==
  \A t \in Range(allTopics) :
    ~Selected(t) =>
      toggleBuilderTopic(toggleBuilderTopic(builderTopics, t), t) = builderTopics

\* C12 witness: a modifier was selected before an ingredient, a third
\* technique is not selected
ModifierThenIngredient ==
  /\ Len(builderTopics) = 2
  /\ isMedia(builderTopics[1]) /\ ~isMedia(builderTopics[2])
  /\ \E t \in Range(allTopics) : ~Selected(t)

\* C13 (as claimed): onRemove of a technique that is not selected leaves the
\* Selection Set unchanged
RemoveNonMemberIsNoOp ==
  \A t \in Range(allTopics) :
    ~Selected(t) => onRemove(builderTopics, t) = builderTopics

\* C14: toggling or dropping a technique that is no modifier leaves the mode
\* unchanged, and the mode is that of the modifiers alone
IngredientKeepsMode ==
  /\ \A t \in Range(allTopics) :
       ~isMedia(t) =>
         /\ currentMode(toggleBuilderTopic(builderTopics, t)) = currentMode(builderTopics)
         /\ currentMode(handleDrop(builderTopics, t.symbol)) = currentMode(builderTopics)
  /\ currentMode(modifiers(builderTopics)) = currentMode(builderTopics)

\* C14 witness: an ingredient is selected before a modifier, the mode is
\* not TEXT
IngredientBeforeModifier ==
  /\ Len(builderTopics) >= 2
  /\ ~isMedia(builderTopics[1]) /\ isMedia(builderTopics[2])
  /\ currentMode(builderTopics) # "TEXT"

\* C15: modifiers holds the selected techniques of category Video, Audio or
\* Voice, ingredients the others; no technique is in both, each is in one
\* of them once, and both keep the order of the selection
Partition ==
  LET ing == ingredients(builderTopics)
      mod == modifiers(builderTopics)
      ordered(s) ==
        \A i, j \in 1..Len(s) :
          i < j => Position(builderTopics, s[i]) < Position(builderTopics, s[j])
  IN /\ \A t \in Range(builderTopics) :
          /\ t \in Range(mod) <=> isMedia(t)
          /\ t \in Range(ing) <=> ~isMedia(t)
     /\ Range(ing) \cup Range(mod) = Range(builderTopics)
     /\ Range(ing) \cap Range(mod) = {}
     /\ Len(ing) + Len(mod) = Len(builderTopics)
     /\ ordered(ing) /\ ordered(mod)

\* C15 witness: two ingredients are selected, the command first, and a
\* modifier between them
TwoIngredientsAroundModifier ==
  /\ Len(builderTopics) = 3
  /\ builderTopics[1].category = COMMAND
  /\ isMedia(builderTopics[2])
  /\ builderTopics[3].category = UNIVERSAL


\* this step is an accepted handleGenerate
Accepted == Len(calls') = Len(calls) + 1

\* C16: a generate with empty or white-space-only input that is no
\* regenerate is not accepted: with such an input no step but a regenerate
\* starts a turn, and what a regenerate leaves alone (transcript, input) and
\* the session stay as they are; no user Message ever has an empty text
BlankGenerateRejected ==
  /\ [][(trim(userPrompt) = << >> /\ Accepted) =>
          /\ turns'[Len(calls')].isRegen
          /\ messages' = messages
          /\ userPrompt' = userPrompt
          /\ chatSession' = chatSession]_vars
  /\ [](\A q \in 1..Len(messages) :
          messages[q].role = "user" => messages[q].text # << >>)

\* C16 witness: the input is white space only, the generate button is
\* enabled and the early return is taken; a regenerate would be accepted
WhitespaceOnlyRejected ==
  /\ userPrompt = << " " >>
  /\ ENABLED HandleGenerateRejected
  /\ offered(TRUE)

\* C17: without an API key no backend call is issued and no session is
\* created; every accepted generate gets one simulated Message once its
\* timer has fired and none before, and the builder is idle when no timer
\* is pending
MissingKeySimulates ==
  ~hasApiKey =>
    /\ chatSession = NoChat
    /\ turns = << >> => ~isBuilding
    /\ \A i \in 1..Len(calls) :
         /\ calls[i] = Calls("none", "none")
         /\ i \in DOMAIN turns => turns[i].pc = "sim" /\ ModelPositions(i) = {}
         /\ Returned(i) =>
              /\ Cardinality(ModelPositions(i)) = 1
              /\ \A q \in ModelPositions(i) :
                   /\ messages[q].text[1] = "// SIMULATION: API KEY MISSING."
                   /\ messages[q].image = Undefined

\* C17 witness: two generates were accepted without an API key and both
\* simulated Messages are delivered
TwoSimulatedReplies ==
  /\ ~hasApiKey
  /\ Len(calls) = 2 /\ turns = << >>
  /\ Len(messages) = 3 /\ messages[3].role = "model"

PlanParseFailureFlagged ==
  [][(planRequest.state = "pending" /\ planRequest'.state = "returned"
        /\ planRequest'.text \in InvalidPlanTexts) =>
       /\ Len(messages') = Len(messages) + 1
       /\ SubSeq(messages', 1, Len(messages)) = messages
       /\ Last(messages').role = "model"
       /\ DOMAIN Last(messages').plan = {"title", "steps"}
       /\ Last(messages').plan.title = "Error"
       /\ Last(messages').plan.steps \in Seq({"steps"})]_vars

\* C19 witness: a plan request returned a truncated JSON text and the
\* transcript ends with the error Plan
ErrorPlanShown ==
  /\ planRequest.state = "returned"
  /\ planRequest.text = << "{", "title" >>
  /\ messages # << >>
  /\ Last(messages).turn = 0
  /\ Last(messages).text = PlanNote
  /\ Last(messages).plan = ErrorPlan

DropOnlyAdds ==
  \A symbol \in DropSymbols :
    LET r == handleDrop(builderTopics, symbol)
        n == Len(builderTopics)
        known == \E t \in Range(allTopics) : t.symbol = symbol
        selected == \E i \in 1..n : builderTopics[i].symbol = symbol
    IN /\ Len(r) >= n
       /\ SubSeq(r, 1, n) = builderTopics
       /\ (known /\ ~selected) =>
            /\ Len(r) = n + 1
            /\ r[n + 1] \in Range(allTopics)
            /\ r[n + 1].symbol = symbol
       /\ (~known \/ selected) => r = builderTopics

\* C29 witness: three techniques are selected, the command last, and others
\* are not
CommandDroppedLast ==
  /\ Len(builderTopics) = 3
  /\ builderTopics[3].category = COMMAND
  /\ \E t \in Range(allTopics) : ~Selected(t)

\* C24: no step removes, reorders or rewrites a Message; an accepted
\* generate appends one user Message, an accepted regenerate none; a turn
\* returns in the step that appends its model Message, and a returned turn
\* has one model Message in the transcript, a turn in flight none
TranscriptAppendOnly ==
  /\ [][/\ Len(messages) <= Len(messages') /\ Len(messages') <= Len(messages) + 1
        /\ SubSeq(messages', 1, Len(messages)) = messages
        /\ Accepted =>
             IF turns'[Len(calls')].isRegen
             THEN messages' = messages
             ELSE /\ Len(messages') = Len(messages) + 1
                  /\ Last(messages').role = "user"
                  /\ Last(messages').turn = Len(calls')
        /\ \A i \in DOMAIN turns : i \notin DOMAIN turns' => AppendsReplyOf(i)
        /\ (Len(messages') = Len(messages) + 1 /\ Last(messages').role = "model") =>
             Last(messages').turn \in DOMAIN turns \ DOMAIN turns']_vars
  /\ [](\A i \in 1..Len(calls) :
          Cardinality(ModelPositions(i)) = IF Returned(i) THEN 1 ELSE 0)

\* C24 witness: a turn and a regenerate after it have returned; the
\* transcript is the user Message and the two replies
RegeneratedReplyAppended ==
  /\ hasApiKey /\ turns = << >>
  /\ Len(messages) = 3
  /\ messages[1].role = "user" /\ messages[1].turn = 1
  /\ messages[2].role = "model" /\ messages[2].turn = 1
  /\ messages[3].role = "model" /\ messages[3].turn = 2

\* C28: while the loading indicator is shown, loadingMsgIndex is an index
\* of the list of the current mode and the indicator renders one of its
\* messages
LoadingIndexValid ==
  loadingShown =>
    /\ loadingMsgIndex \in 0..(Len(msgList(currentMode(builderTopics))) - 1)
    /\ loadingText \in Range(msgList(currentMode(builderTopics)))

\* C22: a step plays the mode sound once when it changes the derived mode
\* to VIDEO, AUDIO or VOICE, and plays none when it leaves the mode
\* unchanged or changes it to TEXT
ModeSoundOnChange ==
  [][LET before == currentMode(builderTopics)
         after == currentMode(builderTopics')
     IN /\ (after # before /\ after # "TEXT") => activatePlays' = activatePlays + 1
        /\ (after = before \/ after = "TEXT") => activatePlays' = activatePlays]_vars

\* C22 witness: three media techniques are selected and the mode sound was
\* played once: the additions that kept the mode played nothing
ModeKeptSilently ==
  /\ activatePlays = 1
  /\ Len(builderTopics) = 3
  /\ \A i \in 1..3 : isMedia(builderTopics[i])

\* the message of invocation i was passed to chat.sendMessage
Sent(i) == i \in DOMAIN outbound /\ i \in 1..Len(calls) /\ calls[i].text # "none"
\* the position of the context marker in a message, 0 when it has none
ContextAt(m) ==
  IF \E k \in 1..Len(m) : m[k] = UpdatedContext
  THEN CHOOSE k \in 1..Len(m) : m[k] = UpdatedContext
  ELSE 0

\* C21: the message of a turn fired with a non-empty transcript ends with
\* the context marker, the mode of the selection of the firing step and the
\* names of its modifiers in selection order; the message of a turn fired
\* with an empty transcript is the trimmed input without marker; no later
\* step changes the message of a turn
ContextFromFireTime ==
  [][/\ (Accepted /\ hasApiKey) =>
          LET m == outbound'[Len(calls')]
              k == ContextAt(m)
              mods == SelectSeq(builderTopics, isMedia)
          IN IF Len(messages) > 0
             THEN /\ k > 0
                  /\ m[k + 1] = currentMode(builderTopics)
                  /\ m[k + 2] = ModifiersLabel
                  /\ Len(m) = k + 2 + (IF mods = << >> THEN 0 ELSE 2 * Len(mods) - 1)
                  /\ \A j \in 1..Len(mods) : m[k + 1 + 2 * j] = element(mods[j])
             ELSE k = 0 /\ m = trim(userPrompt)
     /\ \A i \in DOMAIN outbound : i \in DOMAIN outbound' /\ outbound'[i] = outbound[i]]_vars

\* C21 witness: the first turn, fired in TEXT mode, created the session and
\* sent the bare input; the second turn sent its message on that session
\* with the VIDEO mode of the selection made in between
SecondTurnCarriesNewMode ==
  /\ chatSession = 1
  /\ Sent(1) /\ outbound[1] = << "a" >>
  /\ Sent(2) /\ ContextAt(outbound[2]) > 0
  /\ outbound[2][ContextAt(outbound[2]) + 1] = "VIDEO"
  /\ Last(outbound[2]) = "Video Gen"

\* C25: a regenerate is accepted only with a non-empty transcript and an
\* idle builder, leaves the transcript and the input as they are and passes
\* the regenerate instruction, not the input, to the session; a turn that
\* sent the regenerate instruction made no image call
RegenerateFrame ==
  /\ [][(Accepted /\ turns'[Len(calls')].isRegen) =>
          /\ Len(messages) > 0 /\ ~isBuilding
          /\ messages' = messages
          /\ userPrompt' = userPrompt
          /\ hasApiKey =>
               /\ Head(outbound'[Len(calls')]) = RegenerateText
               /\ \A k \in 1..Len(outbound'[Len(calls')]) :
                    outbound'[Len(calls')][k] # "a"]_vars
  /\ [](\A i \in DOMAIN outbound :
          Head(outbound[i]) = RegenerateText => calls[i].image = "none")

\* C25 witness: with text in the input, a regenerate sent the regenerate
\* instruction and its content call returned
RegenerateSentWithInputKept ==
  /\ userPrompt = TaskPrompt
  /\ Sent(2) /\ Head(outbound[2]) = RegenerateText
  /\ calls[2].text = "ok"

\* C30: while the slide view is rendered, currentSlide is a position of
\* the deck
SlideInRange ==
  slideViewShown => 0 <= currentSlide /\ currentSlide <= Len(slides) - 1

\* C30 witness: the last slide of a deck of four is shown, the next button
\* at its limit
LastSlideShown == slideViewShown /\ Len(slides) = 4 /\ currentSlide = 3

\* C23: a run of generatePresentation that has ended left
\* isPresentationLoading false and a deck fixed by what failed: the mock
\* slides without credentials, one error slide for a rejected slide request
\* and one for a text JSON.parse rejects, the parsed slides without image
\* when the hero image call failed; isPresentationLoading is true exactly
\* while a run is pending, and every run ends
PresentationRecovers ==
  /\ [](isPresentationLoading <=> deck.pc \in {"timer", "slides", "hero"})
  /\ [](deck.pc = "done" =>
          /\ ~hasApiKey => slides = MockSlides
          /\ deck.request = "rejected" =>
               slides = << CouldNotSlide >>
          /\ (deck.request = "ok" /\ deck.text = << "[", "Title" >>) =>
               /\ Len(slides) = 1
               /\ slides[1].title = "Error"
               /\ slides[1].points = << "Failed to generate slides." >>
          /\ (deck.request = "ok" /\ deck.text = FourSlidesText
                /\ deck.hero \in {Null, "rejected"}) =>
               /\ Len(slides) = 4
               /\ \A k \in 1..4 : /\ slides[k].title = FourSlidesText[k + 1]
                                  /\ slides[k].imageUrl = Undefined)
  /\ (isPresentationLoading ~> ~isPresentationLoading)

\* C23 witness: the slide request returned four slides, the hero image call
\* was rejected, and the deck of four is shown
DeckShownWithoutHero ==
  /\ deck.pc = "done" /\ deck.text = FourSlidesText /\ deck.hero = "rejected"
  /\ slideViewShown /\ Len(slides) = 4

\* this step starts a tutor request
TutorRequestStarts == Len(tutorCalls') = Len(tutorCalls) + 1
\* this step ends the startTutorMode invocation i
StartEnds(i) ==
  /\ i \in 1..Len(tutorCalls')
  /\ tutorCalls'[i].op = "start" /\ tutorCalls'[i].done
  /\ i \in 1..Len(tutorCalls) => ~tutorCalls[i].done

\* C26: no tutor request starts while isTutorLoading is true, and
\* isTutorLoading is false only when every tutor request has returned
NoSendWhileLoading ==
  /\ [][isTutorLoading => ~TutorRequestStarts]_vars
  /\ [](~isTutorLoading => \A i \in 1..Len(tutorCalls) : tutorCalls[i].done)

\* C27: the step that ends startTutorMode leaves isTutorLoading false and a
\* transcript of one model Message: the review text only when both calls
\* resolved, with the image when one was returned, and the initialisation
\* error when the text call or the image call was rejected
StartTutorEnds ==
  [][\A i \in 1..MaxTutorCalls :
       StartEnds(i) =>
         LET c == tutorCalls'[i]
         IN /\ ~isTutorLoading'
            /\ Len(tutorMessages') = 1
            /\ tutorMessages'[1].role = "model"
            /\ tutorMessages'[1].text = TutorReviewText =>
                 c.text = "ok" /\ c.image \in {ImageData, Null}
            /\ "rejected" \in {c.text, c.image} =>
                 tutorMessages'[1] = TutorMessage("model", TutorInitErrorText, Undefined)
            /\ (c.text = "ok" /\ c.image = ImageData) =>
                 tutorMessages'[1] = TutorMessage("model", TutorReviewText, ImageData)]_vars

\* C27 witness: the text call resolved and the image call was rejected; the
\* transcript is the initialisation error
ImageFailureEndsStart ==
  /\ Len(tutorCalls) = 1
  /\ tutorCalls[1] = TutorCall("start", "ok", "rejected", TRUE)
  /\ tutorMessages = << TutorMessage("model", TutorInitErrorText, Undefined) >>
  /\ ~isTutorLoading

====
